---- MODULE Spec2Model ----
(***************************************************************************)
(* Model of the flight price backend (src/app/routes.py) and of the name   *)
(* it resolves in src/app/analysis.py.                                      *)
(*                                                                         *)
(* One request at a time is handled by one of the two Flask handlers,      *)
(* get_predict (/api/data) and get_lowest_price (/api/data/lowestcost).    *)
(* Each handler asks the Price Oracle, analysis.get_predict, twice per     *)
(* candidate airline, sorts the two dicts by price and builds its answer.  *)
(*                                                                         *)
(* Further specifications of the module: SpecInvalid (an oracle that may   *)
(* return an invalid quote), SpecNum (the oracle as get_num computes a     *)
(* quote from a prediction), SpecConcurrent (two requests handled by two   *)
(* interleaved threads), SpecMain (src/main_page.py) and SpecBulk          *)
(* (src/pages/second_page.py with src/excel_parser.py).                    *)
(*                                                                         *)
(* Representation:                                                         *)
(*  - a Python dict is a sequence of <<key, value>> pairs in insertion     *)
(*    order;                                                               *)
(*  - a Python float that holds a price is an integer number of            *)
(*    hundredths (fixed point), so that float(q) and * 1.08 are exact on   *)
(*    the whole-number quotes of the oracle; float rounding is not         *)
(*    modelled;                                                            *)
(*  - request.args is a function from the parameter names present in the   *)
(*    query string to their values.                                        *)
(***************************************************************************)
EXTENDS Integers, Sequences, FiniteSets, TLC

\* Largest whole-number quote the oracle returns in the model.
MaxQuote == 1

\* Hundredths per unit: float(q) is q * Scale.
Scale == 100

\* The markup factor 1.08 of get_predict, in hundredths.
MarkupNum == 108

Quotes == 0..MaxQuote

\* The candidate list literal of both handlers.
Airlines == <<"IndiGo", "Air India", "SpiceJet", "Vistara">>

\* The candidate lists of the model: the literal and its shorter prefixes,
\* the empty one included (the Candidate Airline Set as a configuration).
AirlineLists == { SubSeq(Airlines, 1, n) : n \in 0..Len(Airlines) }

\* Names module analysis binds itself (def get_num).
AnalysisDefs == {"get_num"}

\* The attribute both handlers look up on module analysis.
OracleName == "get_predict"

\* Namespaces of module analysis at request time: as the file defines it,
\* or with the oracle bound under the name the handlers use.
AnalysisNamespaces == { AnalysisDefs, AnalysisDefs \cup {OracleName} }

Endpoints == {"/api/data", "/api/data/lowestcost"}

Params == {"dep", "dest", "depdate", "backdate"}
\* The trips of the model, as <<dep, dest, depdate, backdate>>: a round trip, a
\* trip between the same cities the other way whose return date precedes its
\* outbound date, and a trip that stays in one city on one day.
Trips ==
    { <<"Delhi", "Cochin", "2019-03-01", "2019-03-09">>,
      <<"Cochin", "Delhi", "2019-03-09", "2019-03-01">>,
      <<"Delhi", "Delhi", "2019-03-01", "2019-03-01">> }

\* Query strings of the model: the four parameters of a trip, or none at all.
RequestArgs ==
    { [p \in Params |-> IF p = "dep" THEN t[1] ELSE IF p = "dest" THEN t[2]
                        ELSE IF p = "depdate" THEN t[3] ELSE t[4]] : t \in Trips }
    \cup { <<>> }

----------------------------------------------------------------------------
\* Python helpers

\* request.args.get(k): the value, or None when the parameter is absent.
ArgsGet(a, k) ==
    IF k \in DOMAIN a THEN [some |-> TRUE, val |-> a[k]]
    ELSE [some |-> FALSE, val |-> ""]

\* str(x) of a str or of None.
Str(x) == IF x.some THEN x.val ELSE "None"

\* float(q) of a whole number q, in hundredths.
Float(q) == q * Scale

\* x * 1.08 on hundredths.
Markup(x) == (x * MarkupNum) \div Scale

\* A join that puts the second name first.
JoinReversed(a, b) == b \o "," \o a

\* ','.join([a, b])
Join(a, b) == a \o "," \o b

\* d[k] = v on an insertion-ordered dict.
DictSet(d, k, v) ==
    IF \E j \in 1..Len(d) : d[j][1] = k
    THEN [j \in 1..Len(d) |-> IF d[j][1] = k THEN <<k, v>> ELSE d[j]]
    ELSE Append(d, <<k, v>>)

\* d[k]
DictGet(d, k) == d[CHOOSE j \in 1..Len(d) : d[j][1] = k][2]

\* list(d.keys())
Keys(d) == [j \in 1..Len(d) |-> d[j][1]]

\* A sort that puts x before the items of equal price.
InsertByPriceBeforeTies(s, x) ==
    LET p == Cardinality({ j \in 1..Len(s) : s[j][2] < x[2] })
    IN  SubSeq(s, 1, p) \o <<x>> \o SubSeq(s, p + 1, Len(s))

\* A sort that orders by descending price.
InsertByPriceDescending(s, x) ==
    LET p == Cardinality({ j \in 1..Len(s) : s[j][2] >= x[2] })
    IN  SubSeq(s, 1, p) \o <<x>> \o SubSeq(s, p + 1, Len(s))

\* One step of the stable sort: x goes after every item whose price is <= its own.
InsertByPrice(s, x) ==
    LET p == Cardinality({ j \in 1..Len(s) : s[j][2] <= x[2] })
    IN  SubSeq(s, 1, p) \o <<x>> \o SubSeq(s, p + 1, Len(s))

\* A sort that leaves the items in insertion order.
SortedByPriceUnsorted(items) == items

\* sorted(d.items(), key=lambda item: item[1])
RECURSIVE SortedByPrice(_)
SortedByPrice(items) ==
    IF items = <<>> THEN <<>>
    ELSE InsertByPrice(SortedByPrice(SubSeq(items, 1, Len(items) - 1)),
                       items[Len(items)])

\* {k: v for k, v in items}
RECURSIVE DictFromItems(_)
DictFromItems(items) ==
    IF items = <<>> THEN <<>>
    ELSE LET x == items[Len(items)]
         IN  DictSet(DictFromItems(SubSeq(items, 1, Len(items) - 1)), x[1], x[2])

\* The dict rebuilt in ascending price order (lines 30-31 and 67-68).
SortDict(d) == DictFromItems(SortedByPrice(d))

----------------------------------------------------------------------------
VARIABLES
    analysis_attrs,           \* names bound in module analysis
    airlines,                 \* the candidate list
    pc,                       \* position of the handler
    endpoint,                 \* route of the request being handled
    args,                     \* request.args
    departure, destination, departure_date, back_date,
    i,                        \* position of the for loop in airlines
    departure_price,          \* line 26 / 63
    sorted_prices_departure, sorted_prices_back,
    dest_airlines, back_airlines,
    calls,                    \* oracle calls issued by this request, in order
    returns,                  \* the quote each completed call returned
    in_flight,                \* indices of calls issued and not yet completed
    response,                 \* what the client gets
    suspended,                \* locals of the request whose thread is not running
    dep_city, dest_city,      \* main page: the two select boxes
    departure_d, back_d,      \* main page: the two date inputs
    main_pc,                  \* main page: position of the script
    main_url,                 \* main page: the GET under way
    divs,                     \* main page: forms drawn in the container
    uploaded_file,            \* bulk page: the uploaded workbook
    data,                     \* bulk page: the parsed trips
    index,                    \* bulk page: counter of on_click_btn
    bulk_pc,                  \* bulk page: position of the script
    bulk_url,                 \* bulk page: the GET under way
    forms,                    \* bulk page: forms drawn in the container
    sent,                     \* bulk page: the GETs of this run of on_click_btn, in order
    predictions               \* what model.predict gave for each completed call

config == <<analysis_attrs, airlines>>
request == <<endpoint, args, departure, destination, departure_date, back_date>>
dicts == <<sorted_prices_departure, sorted_prices_back>>
lists == <<dest_airlines, back_airlines>>
oracle == <<calls, returns, in_flight>>
main_page == <<dep_city, dest_city, departure_d, back_d, main_pc, main_url, divs>>
bulk_page == <<uploaded_file, data, index, bulk_pc, bulk_url, forms, sent>>
pages == <<main_page, bulk_page>>
elsewhere == <<suspended, pages, predictions>>
server == <<config, pc, request, i, departure_price, dicts, lists, oracle, response,
            suspended, predictions>>

vars == <<analysis_attrs, airlines, pc, endpoint, args, departure, destination,
          departure_date, back_date, i, departure_price,
          sorted_prices_departure, sorted_prices_back, dest_airlines,
          back_airlines, calls, returns, in_flight, response, suspended,
          dep_city, dest_city, departure_d, back_d, main_pc, main_url, divs,
          uploaded_file, data, index, bulk_pc, bulk_url, forms, sent,
          predictions>>

NoResponse == [status |-> 0]

Failure(exc) == [status |-> 500, exc |-> exc]

\* A loop that stops before the last candidate.
ForNextSkipsLast(k) == IF k < Len(airlines) THEN "call_departure" ELSE "sort"

\* for airline in airlines: the body runs for position k, or the loop is over.
ForNext(k) == IF k <= Len(airlines) THEN "call_departure" ELSE "sort"

\* The locals of a handler that waits for a request.
IdleFrame ==
    [pc |-> "idle", endpoint |-> "none", args |-> <<>>,
     departure |-> "", destination |-> "", departure_date |-> "", back_date |-> "",
     i |-> 1, departure_price |-> 0,
     sorted_prices_departure |-> <<>>, sorted_prices_back |-> <<>>,
     dest_airlines |-> <<>>, back_airlines |-> <<>>,
     calls |-> <<>>, returns |-> <<>>, in_flight |-> {},
     response |-> NoResponse]

\* main_page.py:29-37: the options of the two select boxes.
DepCities == <<"Banglore", "Kolkata", "Delhi", "Chennai", "Mumbai">>
DestCities == <<"New Delhi", "Banglore", "Cochin", "Kolkata", "Delhi", "Hyderabad">>

\* Calendar dates <<year, month, day>> the date inputs and the workbook offer.
Dates == { <<2019, 3, 1>>, <<2019, 3, 9>>, <<2019, 4, 2>> }

\* Python's None, and a value that is set.
None == [some |-> FALSE]
Some(v) == [some |-> TRUE, val |-> v]

\* No GET is under way.
NoUrl == [host |-> "", path |-> "", query |-> <<>>]

Init ==
    /\ analysis_attrs \in AnalysisNamespaces
    /\ airlines \in AirlineLists
    /\ pc = "idle"
    /\ endpoint = "none"
    /\ args = <<>>
    /\ departure = "" /\ destination = "" /\ departure_date = "" /\ back_date = ""
    /\ i = 1
    /\ departure_price = 0
    /\ sorted_prices_departure = <<>> /\ sorted_prices_back = <<>>
    /\ dest_airlines = <<>> /\ back_airlines = <<>>
    /\ calls = <<>> /\ returns = <<>> /\ in_flight = {}
    /\ response = NoResponse
    /\ suspended = IdleFrame
    /\ dep_city = DepCities[1] /\ dest_city = DestCities[1]
    /\ departure_d = None /\ back_d = None
    /\ main_pc = "idle" /\ main_url = NoUrl /\ divs = <<>>
    /\ uploaded_file = None /\ data = <<>> /\ index = 1
    /\ bulk_pc = "idle" /\ bulk_url = NoUrl /\ forms = <<>> /\ sent = <<>>
    /\ predictions = <<>>

\* Lines 8-24 / 52-61: a request arrives and the handler sets up its locals.
Request(ep, a) ==
    /\ pc = "idle"
    /\ endpoint' = ep
    /\ args' = a
    /\ departure' = Str(ArgsGet(a, "dep"))
    /\ destination' = Str(ArgsGet(a, "dest"))
    /\ departure_date' = Str(ArgsGet(a, "depdate"))
    /\ back_date' = Str(ArgsGet(a, "backdate"))
    /\ sorted_prices_departure' = <<>> /\ sorted_prices_back' = <<>>
    /\ i' = 1
    /\ pc' = ForNext(1)
    /\ UNCHANGED <<config, departure_price, lists, oracle, response>>
    /\ UNCHANGED elsewhere

\* The argument tuple of the call at line 26 / 63.
DepartureCall ==
    [leg |-> "departure", airline |-> airlines[i], date |-> departure_date,
     source |-> departure, destination |-> destination,
     total_stops |-> "non-stop", info |-> "no-info", route |-> Float(1)]

\* A return call that keeps the outbound order of the cities.
BackCallUnswapped ==
    [leg |-> "back", airline |-> airlines[i], date |-> back_date,
     source |-> departure, destination |-> destination,
     total_stops |-> "non-stop", info |-> "no-info", route |-> Float(1)]

\* The argument tuple of the call at line 27 / 64.
BackCall ==
    [leg |-> "back", airline |-> airlines[i], date |-> back_date,
     source |-> destination, destination |-> departure,
     total_stops |-> "non-stop", info |-> "no-info", route |-> Float(1)]

\* analysis.get_predict(...) is entered: the attribute resolves and the call is issued.
Call ==
    /\ pc \in {"call_departure", "call_back"}
    /\ OracleName \in analysis_attrs
    /\ calls' = Append(calls, IF pc = "call_departure" THEN DepartureCall ELSE BackCall)
    /\ in_flight' = in_flight \cup {Len(calls) + 1}
    /\ pc' = IF pc = "call_departure" THEN "wait_departure" ELSE "wait_back"
    /\ UNCHANGED <<config, request, i, departure_price, dicts, lists, returns, response>>
    /\ UNCHANGED elsewhere

\* analysis has no attribute get_predict: AttributeError, answered as a 500.
LookupFails ==
    /\ pc \in {"call_departure", "call_back"}
    /\ OracleName \notin analysis_attrs
    /\ response' = Failure("AttributeError")
    /\ pc' = "done"
    /\ UNCHANGED <<config, request, i, departure_price, dicts, lists, oracle>>
    /\ UNCHANGED elsewhere

\* Lines 26-29 / 63-66: the quote q of the call under way is stored.
Store(q) ==
    /\ pc \in {"wait_departure", "wait_back"}
    /\ returns' = Append(returns, q)
    /\ in_flight' = in_flight \ {Len(calls)}
    /\ IF pc = "wait_departure"
       THEN /\ departure_price' = Float(q)
            /\ pc' = "call_back"
            /\ UNCHANGED <<i, dicts>>
       ELSE /\ sorted_prices_departure' =
                   DictSet(sorted_prices_departure, airlines[i], departure_price)
            /\ sorted_prices_back' = DictSet(sorted_prices_back, airlines[i], Float(q))
            /\ i' = i + 1
            /\ pc' = ForNext(i + 1)
            /\ UNCHANGED departure_price
    /\ UNCHANGED <<config, request, lists, calls, response>>

\* The oracle returns q; lines 26-29 / 63-66 store it.
Return(q) ==
    /\ Store(q)
    /\ UNCHANGED elsewhere

\* A handler that swallows the exception and goes on with the next call, the
\* failed quote left out.
RaiseAndContinue ==
    /\ pc \in {"wait_departure", "wait_back"}
    /\ in_flight' = in_flight \ {Len(calls)}
    /\ IF pc = "wait_departure"
       THEN pc' = "call_back" /\ i' = i
       ELSE pc' = ForNext(i + 1) /\ i' = i + 1
    /\ UNCHANGED <<config, request, departure_price, dicts, lists, calls, returns,
                   response>>
    /\ UNCHANGED elsewhere

\* The oracle (or float() of its result) raises: the exception leaves the handler.
Raise ==
    /\ pc \in {"wait_departure", "wait_back"}
    /\ in_flight' = in_flight \ {Len(calls)}
    /\ response' = Failure("OracleError")
    /\ pc' = "done"
    /\ UNCHANGED <<config, request, i, departure_price, dicts, lists, calls, returns>>
    /\ UNCHANGED elsewhere

\* A sort that also leaves the candidate list in outbound price order, as a
\* list shared by all requests and sorted in place would be.
SortPricesReordersCandidates ==
    /\ pc = "sort"
    /\ sorted_prices_departure' = SortDict(sorted_prices_departure)
    /\ sorted_prices_back' = SortDict(sorted_prices_back)
    /\ dest_airlines' = Keys(SortDict(sorted_prices_departure))
    /\ back_airlines' = Keys(SortDict(sorted_prices_back))
    /\ airlines' = Keys(SortDict(sorted_prices_departure))
    /\ pc' = "build"
    /\ UNCHANGED <<analysis_attrs, request, i, departure_price, oracle, response>>
    /\ UNCHANGED elsewhere

\* Lines 30-34 / 67-71.
SortPrices ==
    /\ pc = "sort"
    /\ sorted_prices_departure' = SortDict(sorted_prices_departure)
    /\ sorted_prices_back' = SortDict(sorted_prices_back)
    /\ dest_airlines' = Keys(SortDict(sorted_prices_departure))
    /\ back_airlines' = Keys(SortDict(sorted_prices_back))
    /\ pc' = "build"
    /\ UNCHANGED <<config, request, i, departure_price, oracle, response>>
    /\ UNCHANGED elsewhere

\* An entry that marks up the outbound price only.
RankEntryMarkupOutbound(spd, spb, da, ba, k) ==
    [airlines |-> Join(da[k], ba[k]),
     price |-> Markup(DictGet(spd, da[k])) + DictGet(spb, ba[k])]

\* Lines 37-43: the entry of rank k.
RankEntry(spd, spb, da, ba, k) ==
    [airlines |-> Join(da[k], ba[k]),
     price |-> Markup(DictGet(spd, da[k]) + DictGet(spb, ba[k]))]

\* The entries listed from the last rank to the first.
RankPricesReversed(spd, spb, da, ba) ==
    [k \in 1..Len(da) |-> RankEntry(spd, spb, da, ba, Len(da) + 1 - k)]

\* Every return airline paired with the cheapest outbound airline.
RankPricesFirstOutbound(spd, spb, da, ba) ==
    [k \in 1..Len(da) |->
        [airlines |-> Join(da[1], ba[k]),
         price |-> Markup(DictGet(spd, da[1]) + DictGet(spb, ba[k]))]]

\* Every outbound airline paired with the cheapest return airline.
RankPricesFirstReturn(spd, spb, da, ba) ==
    [k \in 1..Len(da) |->
        [airlines |-> Join(da[k], ba[1]),
         price |-> Markup(DictGet(spd, da[k]) + DictGet(spb, ba[1]))]]

\* The cross product of the outbound and the return airlines, outbound-major.
RankPricesCross(spd, spb, da, ba) ==
    [k \in 1..(Len(da) * Len(ba)) |->
        LET x == da[((k - 1) \div Len(ba)) + 1]
            y == ba[((k - 1) % Len(ba)) + 1]
        IN  [airlines |-> Join(x, y),
             price |-> Markup(DictGet(spd, x) + DictGet(spb, y))]]

\* Lines 36-45: predict["prices"].
RankPrices(spd, spb, da, ba) ==
    [k \in 1..Len(da) |-> RankEntry(spd, spb, da, ba, k)]

\* Lines 16-22 and 36-48: get_predict answers.
BuildPredict ==
    /\ pc = "build"
    /\ endpoint = "/api/data"
    /\ response' =
          [status |-> 200,
           departure_city |-> departure,
           destination_city |-> destination,
           departure_date |-> departure_date,
           back_date |-> back_date,
           prices |-> RankPrices(sorted_prices_departure, sorted_prices_back,
                                 dest_airlines, back_airlines)]
    /\ pc' = "done"
    /\ UNCHANGED <<config, request, i, departure_price, dicts, lists, oracle>>
    /\ UNCHANGED elsewhere

\* A cheapest combination that takes the last return airline of the ranking.
LowestEntryLastReturn(spd, spb, da, ba) ==
    [airlines |-> Join(da[1], ba[Len(ba)]),
     price |-> DictGet(spd, da[1]) + DictGet(spb, ba[Len(ba)])]

\* A cheapest combination that reuses the outbound airline for the return leg.
LowestEntrySameAirline(spd, spb, da, ba) ==
    [airlines |-> Join(da[1], da[1]),
     price |-> DictGet(spd, da[1]) + DictGet(spb, da[1])]

\* Lines 73-81: the cheapest combination.
LowestEntry(spd, spb, da, ba) ==
    [airlines |-> Join(da[1], ba[1]),
     price |-> DictGet(spd, da[1]) + DictGet(spb, ba[1])]

\* Lines 73-84: get_lowest_price answers, or dest_airlines[0] raises IndexError.
BuildLowest ==
    /\ pc = "build"
    /\ endpoint = "/api/data/lowestcost"
    /\ \/ /\ Len(dest_airlines) = 0
          /\ response' = Failure("IndexError")
       \/ /\ Len(dest_airlines) > 0
          /\ response' =
                [status |-> 200] @@
                LowestEntry(sorted_prices_departure, sorted_prices_back,
                            dest_airlines, back_airlines)
    /\ pc' = "done"
    /\ UNCHANGED <<config, request, i, departure_price, dicts, lists, oracle>>
    /\ UNCHANGED elsewhere

\* The handler returns and its locals are gone.
Discard ==
    /\ pc = "done"
    /\ pc' = "idle"
    /\ endpoint' = "none"
    /\ args' = <<>>
    /\ departure' = "" /\ destination' = "" /\ departure_date' = "" /\ back_date' = ""
    /\ i' = 1
    /\ departure_price' = 0
    /\ sorted_prices_departure' = <<>> /\ sorted_prices_back' = <<>>
    /\ dest_airlines' = <<>> /\ back_airlines' = <<>>
    /\ calls' = <<>> /\ returns' = <<>> /\ in_flight' = {}
    /\ response' = NoResponse
    /\ UNCHANGED config

\* The response is sent; the worker waits for the next request with fresh locals.
Finish ==
    /\ Discard
    /\ UNCHANGED elsewhere

Next ==
    \/ \E ep \in Endpoints, a \in RequestArgs : Request(ep, a)
    \/ Call
    \/ LookupFails
    \/ \E q \in Quotes : Return(q)
    \/ Raise
    \/ SortPrices
    \/ BuildPredict
    \/ BuildLowest
    \/ Finish

\* Quotes that are not non-negative amounts.
InvalidQuotes == {-1}

\* The oracle returns a quote that is not a valid price.
ReturnInvalid == \E q \in InvalidQuotes : Return(q)

\* The handlers with an oracle that may also return invalid quotes.
NextInvalid == Next \/ ReturnInvalid

SpecInvalid == Init /\ [][NextInvalid]_vars

Spec == Init /\ [][Next]_vars

----------------------------------------------------------------------------
\* The loop of lines 25-29 / 62-66 as a function of the quotes: the dict that
\* holds float(q[a]) for every candidate a, in candidate order.
RECURSIVE CollectPrices(_, _)
CollectPrices(al, q) ==
    IF al = <<>> THEN <<>>
    ELSE LET a == al[Len(al)]
         IN  DictSet(CollectPrices(SubSeq(al, 1, Len(al) - 1), q), a, Float(q[a]))

\* Lines 60-81 of get_lowest_price as a function of the candidate list and of
\* the outbound and return quotes.
LowestOf(al, oq, bq) ==
    LET spd == SortDict(CollectPrices(al, oq))
        spb == SortDict(CollectPrices(al, bq))
    IN  LowestEntry(spd, spb, Keys(spd), Keys(spb))

\* Lines 8-48 of get_predict as a function of the candidate list, the request
\* parameters and the outbound and return quotes.
PredictOf(al, a, oq, bq) ==
    LET spd == SortDict(CollectPrices(al, oq))
        spb == SortDict(CollectPrices(al, bq))
    IN  [status |-> 200,
         departure_city |-> Str(ArgsGet(a, "dep")),
         destination_city |-> Str(ArgsGet(a, "dest")),
         departure_date |-> Str(ArgsGet(a, "depdate")),
         back_date |-> Str(ArgsGet(a, "backdate")),
         prices |-> RankPrices(spd, spb, Keys(spd), Keys(spb))]

\* The answer of the handler of route ep as a function of its inputs.
ResponseOf(ep, al, a, oq, bq) ==
    IF ep = "/api/data" THEN PredictOf(al, a, oq, bq)
    ELSE [status |-> 200] @@ LowestOf(al, oq, bq)

----------------------------------------------------------------------------
\* The oracle as src/app/analysis.py computes a quote: the regression model
\* predicts a price, a float, and get_num returns int() of it. Predictions are
\* in hundredths like every float of the model.

\* Candidate lists of these runs have at most this many names.
MaxNumCandidates == 2

\* Hundredths a prediction may hold beyond a whole number.
Fractions == {0, 99}

\* What model.predict(data)[0] may be.
Predictions == { q * Scale + f : q \in Quotes, f \in Fractions }

\* int(x) of a float x: the whole number next to x towards zero.
Trunc(x) == IF x >= 0 THEN x \div Scale ELSE -((-x) \div Scale)

\* A wrapper that rounds to the nearest whole number.
get_num_rounded(p) == (p + (Scale \div 2)) \div Scale

\* analysis.py:23-24: x = int(model.predict(data)[0]); return x.
get_num(p) == Trunc(p)

\* The model predicts p for the call under way; the wrapper returns int(p),
\* which lines 26-29 / 63-66 store.
Predict(p) ==
    /\ Store(get_num(p))
    /\ predictions' = Append(predictions, p)
    /\ UNCHANGED <<suspended, pages>>

\* The response is sent; the worker waits for the next request.
FinishNum ==
    /\ Discard
    /\ predictions' = <<>>
    /\ UNCHANGED <<suspended, pages>>

InitNum ==
    /\ Init
    /\ Len(airlines) \in 1..MaxNumCandidates

NextNum ==
    \/ \E ep \in Endpoints, a \in RequestArgs : Request(ep, a)
    \/ Call
    \/ LookupFails
    \/ \E p \in Predictions : Predict(p)
    \/ Raise
    \/ SortPrices
    \/ BuildPredict
    \/ BuildLowest
    \/ FinishNum

SpecNum == InitNum /\ [][NextNum]_vars

----------------------------------------------------------------------------
\* Two requests served at once: the server runs each handler in its own thread,
\* and a thread's locals are its own. The variables of the handler above are
\* the locals of the running thread; 'suspended' keeps those of the other one.

\* Candidate lists of the concurrent runs have at most this many names.
MaxConcurrentCandidates == 1

\* The locals of the running handler.
Frame ==
    [pc |-> pc, endpoint |-> endpoint, args |-> args,
     departure |-> departure, destination |-> destination,
     departure_date |-> departure_date, back_date |-> back_date,
     i |-> i, departure_price |-> departure_price,
     sorted_prices_departure |-> sorted_prices_departure,
     sorted_prices_back |-> sorted_prices_back,
     dest_airlines |-> dest_airlines, back_airlines |-> back_airlines,
     calls |-> calls, returns |-> returns, in_flight |-> in_flight,
     response |-> response]

\* A switch between threads whose price dicts are one pair shared by both.
SwitchSharesDicts ==
    /\ suspended' = Frame
    /\ pc' = suspended.pc
    /\ endpoint' = suspended.endpoint
    /\ args' = suspended.args
    /\ departure' = suspended.departure
    /\ destination' = suspended.destination
    /\ departure_date' = suspended.departure_date
    /\ back_date' = suspended.back_date
    /\ i' = suspended.i
    /\ departure_price' = suspended.departure_price
    /\ dest_airlines' = suspended.dest_airlines
    /\ back_airlines' = suspended.back_airlines
    /\ calls' = suspended.calls
    /\ returns' = suspended.returns
    /\ in_flight' = suspended.in_flight
    /\ response' = suspended.response
    /\ UNCHANGED <<config, dicts, pages, predictions>>

\* The scheduler suspends the running thread and resumes the other one.
Switch ==
    /\ suspended' = Frame
    /\ pc' = suspended.pc
    /\ endpoint' = suspended.endpoint
    /\ args' = suspended.args
    /\ departure' = suspended.departure
    /\ destination' = suspended.destination
    /\ departure_date' = suspended.departure_date
    /\ back_date' = suspended.back_date
    /\ i' = suspended.i
    /\ departure_price' = suspended.departure_price
    /\ sorted_prices_departure' = suspended.sorted_prices_departure
    /\ sorted_prices_back' = suspended.sorted_prices_back
    /\ dest_airlines' = suspended.dest_airlines
    /\ back_airlines' = suspended.back_airlines
    /\ calls' = suspended.calls
    /\ returns' = suspended.returns
    /\ in_flight' = suspended.in_flight
    /\ response' = suspended.response
    /\ UNCHANGED <<config, pages, predictions>>

InitConcurrent ==
    /\ Init
    /\ Len(airlines) \in 1..MaxConcurrentCandidates

\* Queries of the concurrent runs: the complete ones between two cities.
ConcurrentArgs == { a \in RequestArgs : DOMAIN a = Params /\ a["dep"] # a["dest"] }

NextConcurrent ==
    \/ \E ep \in Endpoints, a \in ConcurrentArgs : Request(ep, a)
    \/ Call
    \/ LookupFails
    \/ \E q \in Quotes : Return(q)
    \/ Raise
    \/ SortPrices
    \/ BuildPredict
    \/ BuildLowest
    \/ Finish
    \/ Switch

SpecConcurrent == InitConcurrent /\ [][NextConcurrent]_vars

----------------------------------------------------------------------------
\* The two Streamlit pages. A page is a script that Streamlit runs again after
\* every interaction; its GET blocks the run until the server has replied. The
\* server is outside the pages: its replies are answers of the handlers above
\* for some candidates and quotes, or a failure.

\* Workbooks have at most this many rows below the header.
MaxTrips == 2

\* Two decimal digits of a day or a month.
Pad2(n) == IF n < 10 THEN "0" \o ToString(n) ELSE ToString(n)

\* str(d) of a datetime.date d.
IsoFormat(d) == ToString(d[1]) \o "-" \o Pad2(d[2]) \o "-" \o Pad2(d[3])

\* f"{d}" of the value of a date input: a date, or None.
FormatDate(d) == IF d.some THEN IsoFormat(d.val) ELSE "None"

\* The names of the query parameters both pages send.
QueryParams == Params \cup {"info"}

\* The query string of main_page.py:93 / second_page.py:59.
Query(city1, city2, dd, bd) ==
    [p \in QueryParams |->
        IF p = "dep" THEN city1 ELSE IF p = "dest" THEN city2
        ELSE IF p = "depdate" THEN dd ELSE IF p = "backdate" THEN bd
        ELSE "no-info"]

\* The parameters the handlers read from a query string.
ArgsOf(q) == [p \in Params |-> q[p]]

\* Candidate lists behind the replies of the server.
ServerLists == { SubSeq(Airlines, 1, n) : n \in 1..2 }

\* The quotes an oracle may give the candidates of list al.
ServerQuotes(al) == [ { al[k] : k \in 1..Len(al) } -> Quotes ]

\* What the server may reply to a GET of route ep with query q.
Replies(ep, q) ==
    UNION { { ResponseOf(ep, al, ArgsOf(q), oq, bq) :
                oq \in ServerQuotes(al), bq \in ServerQuotes(al) } :
            al \in ServerLists }
    \cup { Failure("AttributeError") }

\* ---- main_page.py

\* Lines 29-31: another city of departure is chosen; the script runs again.
SelectDepCity(c) ==
    /\ main_pc # "wait"
    /\ c # dep_city
    /\ dep_city' = c
    /\ main_pc' = "idle" /\ divs' = <<>>
    /\ UNCHANGED <<dest_city, departure_d, back_d, main_url>>
    /\ UNCHANGED <<server, bulk_page>>

\* Lines 34-37: another city of destination is chosen; the script runs again.
SelectDestCity(c) ==
    /\ main_pc # "wait"
    /\ c # dest_city
    /\ dest_city' = c
    /\ main_pc' = "idle" /\ divs' = <<>>
    /\ UNCHANGED <<dep_city, departure_d, back_d, main_url>>
    /\ UNCHANGED <<server, bulk_page>>

\* Lines 49-50: a date of departure is picked; the script runs again.
PickDepartureDate(d) ==
    /\ main_pc # "wait"
    /\ Some(d) # departure_d
    /\ departure_d' = Some(d)
    /\ main_pc' = "idle" /\ divs' = <<>>
    /\ UNCHANGED <<dep_city, dest_city, back_d, main_url>>
    /\ UNCHANGED <<server, bulk_page>>

\* Lines 52-53: a date of return is picked; the script runs again.
PickBackDate(d) ==
    /\ main_pc # "wait"
    /\ Some(d) # back_d
    /\ back_d' = Some(d)
    /\ main_pc' = "idle" /\ divs' = <<>>
    /\ UNCHANGED <<dep_city, dest_city, departure_d, main_url>>
    /\ UNCHANGED <<server, bulk_page>>

\* Line 93: the URL button_click gets.
ButtonClickUrl(city1, city2, dd, bd) ==
    [host |-> "127.0.0.1:5000", path |-> "/api/data",
     query |-> Query(city1, city2, FormatDate(dd), FormatDate(bd))]

\* Lines 54-55, 88-95: 'Найти' is pressed; button_click sends its GET.
ButtonClick ==
    /\ main_pc # "wait"
    /\ main_url' = ButtonClickUrl(dep_city, dest_city, departure_d, back_d)
    /\ main_pc' = "wait" /\ divs' = <<>>
    /\ UNCHANGED <<dep_city, dest_city, departure_d, back_d>>
    /\ UNCHANGED <<server, bulk_page>>

\* Lines 57-83: the form drawn for one entry of 'prices'; prices are in
\* hundredths, which round(price, 2) keeps.
create_div(k, note, dd, bd) ==
    [index |-> k, price |-> note.price, airlines |-> note.airlines,
     departure_date |-> FormatDate(dd), back_date |-> FormatDate(bd)]

\* Lines 95-103: the reply arrives; response.json() raises on a reply that is
\* not JSON, otherwise one form per entry of data['prices'] is drawn.
ButtonClickResponse ==
    /\ main_pc = "wait"
    /\ \E r \in Replies(main_url.path, main_url.query) :
          IF r.status = 200
          THEN /\ divs' = [k \in 1..Len(r.prices) |->
                               create_div(k, r.prices[k], departure_d, back_d)]
               /\ main_pc' = "shown"
          ELSE /\ divs' = <<>>
               /\ main_pc' = "error"
    /\ main_url' = NoUrl
    /\ UNCHANGED <<dep_city, dest_city, departure_d, back_d>>
    /\ UNCHANGED <<server, bulk_page>>

\* The pages talk to the server as shipped.
InitPages ==
    /\ Init
    /\ analysis_attrs = AnalysisDefs
    /\ airlines = Airlines

NextMain ==
    \/ \E k \in 1..Len(DepCities) : SelectDepCity(DepCities[k])
    \/ \E k \in 1..Len(DestCities) : SelectDestCity(DestCities[k])
    \/ \E d \in Dates : PickDepartureDate(d)
    \/ \E d \in Dates : PickBackDate(d)
    \/ ButtonClick
    \/ ButtonClickResponse

SpecMain == InitPages /\ [][NextMain]_vars

\* ---- pages/second_page.py and excel_parser.py

\* Rows of the worksheet below the header: surname, name, patronymic, city of
\* departure, city of destination, and two date cells.
SheetRows ==
    { <<"Ivanov", "Ivan", "Ivanovich", "Delhi", "Cochin", <<2019, 3, 1>>, <<2019, 3, 9>>>>,
      <<"Petrov", "Petr", "Petrovich", "Mumbai", "Hyderabad", <<2019, 3, 9>>, <<2019, 4, 2>>>> }

\* Row 1 of the worksheet.
HeaderRow ==
    <<"Surname", "Name", "Patronymic", "Departure city", "Destination city",
      "Departure date", "Back date">>

\* The active worksheet of a workbook: the header and the rows below it.
Workbooks ==
    { [header |-> HeaderRow, rows |-> w] :
        w \in UNION { [1..n -> SheetRows] : n \in 0..MaxTrips } }

\* ws.max_row
max_row(ws) == 1 + Len(ws.rows)

\* The cells of row n of the worksheet (rows are numbered from 1).
Row(ws, n) == IF n = 1 THEN ws.header ELSE ws.rows[n - 1]

\* str(cell) of a date cell (a datetime at midnight), as its parts between spaces.
StrDatetime(d) == <<IsoFormat(d), "00:00:00">>

\* excel_parser.py:8-22: the business trip of one row.
ParseRow(row) ==
    [name |-> row[1] \o " " \o row[2] \o " " \o row[3],
     departure_city |-> row[4],
     destination_city |-> row[5],
     departure_date |-> StrDatetime(row[6])[1],
     back_date |-> StrDatetime(row[7])[1]]

\* A loop that stops one row early: range(2, ws.max_row).
parseDropsLast(file) ==
    [k \in 1..(max_row(file) - 2) |-> ParseRow(Row(file, k + 1))]

\* excel_parser.py:3-24: one trip per row n in range(2, ws.max_row + 1).
parse(file) ==
    [k \in 1..(max_row(file) - 1) |-> ParseRow(Row(file, k + 1))]

\* second_page.py:58-59: the URL make_request gets.
make_request(city1, city2, dd, bd) ==
    [host |-> "flight-analysis-app-production.up.railway.app",
     path |-> "/api/data/lowestcost",
     query |-> Query(city1, city2, dd, bd)]

\* second_page.py:19-23: the request on_click_btn makes for a trip.
TripRequest(trip) ==
    make_request(trip.departure_city, trip.departure_city,
                 trip.departure_date, trip.back_date)

\* A form that is always numbered 1.
create_trip_info_unnumbered(k, trip) ==
    [index |-> 1, name |-> trip.name,
     location |-> trip.departure_city \o " - " \o trip.destination_city,
     departure_date |-> trip.departure_date, back_date |-> trip.back_date,
     price |-> trip.price, airlines |-> trip.airlines]

\* second_page.py:29-57: the form drawn for a trip.
create_trip_info(k, trip) ==
    [index |-> k, name |-> trip.name,
     location |-> trip.departure_city \o " - " \o trip.destination_city,
     departure_date |-> trip.departure_date, back_date |-> trip.back_date,
     price |-> trip.price, airlines |-> trip.airlines]

\* An update that also files the trip under the city the request named.
WithCostAndCity(trip, cost_date) ==
    [airlines |-> cost_date.airlines, price |-> cost_date.price,
     destination_city |-> trip.departure_city] @@ trip

\* second_page.py:24-25: the trip takes 'airlines' and 'price' of the reply.
WithCost(trip, cost_date) ==
    [airlines |-> cost_date.airlines, price |-> cost_date.price] @@ trip

\* second_page.py:8-11: a workbook is uploaded; the script runs again and parses it.
Upload(f) ==
    /\ bulk_pc # "wait"
    /\ uploaded_file' = Some(f)
    /\ data' = parse(f)
    /\ index' = 1
    /\ bulk_pc' = "idle" /\ bulk_url' = NoUrl /\ forms' = <<>> /\ sent' = <<>>
    /\ UNCHANGED <<server, main_page>>

\* second_page.py:10-23: 'Спрогнозировать' is pressed; on_click_btn starts its
\* loop and sends the GET of the first trip, if there is one.
OnClickBtn ==
    /\ bulk_pc # "wait"
    /\ uploaded_file.some
    /\ data' = parse(uploaded_file.val)
    /\ index' = 1
    /\ forms' = <<>>
    /\ IF Len(parse(uploaded_file.val)) = 0
       THEN bulk_pc' = "done" /\ bulk_url' = NoUrl /\ sent' = <<>>
       ELSE /\ bulk_pc' = "wait"
            /\ bulk_url' = TripRequest(parse(uploaded_file.val)[1])
            /\ sent' = <<TripRequest(parse(uploaded_file.val)[1])>>
    /\ UNCHANGED uploaded_file
    /\ UNCHANGED <<server, main_page>>

\* second_page.py:61-63, 24-27, 18-23: the reply arrives; response.json() raises
\* on a reply that is not JSON; otherwise the trip takes the airlines and the
\* price, its form is drawn and the loop goes on with the next trip.
OnClickBtnResponse ==
    /\ bulk_pc = "wait"
    /\ \E r \in Replies(bulk_url.path, bulk_url.query) :
          IF r.status = 200
          THEN LET trip == WithCost(data[index], r)
               IN  /\ data' = [data EXCEPT ![index] = trip]
                   /\ forms' = Append(forms, create_trip_info(index, trip))
                   /\ index' = index + 1
                   /\ IF index + 1 <= Len(data)
                      THEN /\ bulk_pc' = "wait"
                           /\ bulk_url' = TripRequest(data[index + 1])
                           /\ sent' = Append(sent, TripRequest(data[index + 1]))
                      ELSE bulk_pc' = "done" /\ bulk_url' = NoUrl /\ sent' = sent
          ELSE /\ bulk_pc' = "error" /\ bulk_url' = NoUrl
               /\ UNCHANGED <<data, index, forms, sent>>
    /\ UNCHANGED uploaded_file
    /\ UNCHANGED <<server, main_page>>

NextBulk ==
    \/ \E f \in Workbooks : Upload(f)
    \/ OnClickBtn
    \/ OnClickBtnResponse

SpecBulk == InitPages /\ [][NextBulk]_vars

----------------------------------------------------------------------------
\* Vocabulary of the properties

Candidates == { airlines[j] : j \in 1..Len(airlines) }

\* Position of candidate a in the candidate list.
PosOf(a) == CHOOSE j \in 1..Len(airlines) : airlines[j] = a

\* The handler of route ep has answered with a result.
Answered(ep) == pc = "done" /\ endpoint = ep /\ response.status = 200

\* The quote the oracle returned for airline a on the given leg (defined once
\* that call has completed).
QuoteOf(a, leg) ==
    returns[CHOOSE k \in 1..Len(returns) :
                calls[k].airline = a /\ calls[k].leg = leg]

OutQuote(a) == QuoteOf(a, "departure")
BackQuote(a) == QuoteOf(a, "back")

\* The candidates that can stand first / second in a joined 'airlines' string.
OutboundNames(s) == { x \in Candidates : \E y \in Candidates : s = Join(x, y) }
ReturnNames(s) == { y \in Candidates : \E x \in Candidates : s = Join(x, y) }

\* C1: the outbound airline named first in the 'airlines' string of the
\* lowest-cost answer has an outbound quote <= the outbound quote of every
\* candidate airline.
C1_OutboundMinimal ==
    Answered("/api/data/lowestcost") =>
        /\ OutboundNames(response.airlines) # {}
        /\ \A x \in OutboundNames(response.airlines) :
              \A b \in Candidates : OutQuote(x) <= OutQuote(b)

\* A lowest-cost answer whose outbound airline is not the first candidate and
\* is strictly cheaper than some other candidate.
C1_Witness ==
    /\ Answered("/api/data/lowestcost")
    /\ \E x \in OutboundNames(response.airlines) :
          /\ x # airlines[1]
          /\ \E b \in Candidates : OutQuote(x) < OutQuote(b)

\* C2: the return airline of the lowest-cost answer has a return quote <= every
\* candidate's return quote, and it is the return airline the handler computes
\* for the same return quotes when the outbound quote of any one airline is
\* changed to any other value (every assignment of outbound quotes is reached
\* by such changes, and every one of them is a reachable state).
C2_ReturnIndependent ==
    Answered("/api/data/lowestcost") =>
        LET oq == [a \in Candidates |-> OutQuote(a)]
            bq == [a \in Candidates |-> BackQuote(a)]
        IN  /\ ReturnNames(response.airlines) # {}
            /\ \A y \in ReturnNames(response.airlines) :
                  \A b \in Candidates : BackQuote(y) <= BackQuote(b)
            /\ response.airlines = LowestOf(airlines, oq, bq).airlines
            /\ \A c \in Candidates, v \in Quotes :
                  ReturnNames(LowestOf(airlines, [oq EXCEPT ![c] = v], bq).airlines)
                      = ReturnNames(response.airlines)

\* A lowest-cost answer whose return airline differs from its outbound airline,
\* the outbound airline being strictly dearer on the return leg.
C2_Witness ==
    /\ Answered("/api/data/lowestcost")
    /\ \E x \in OutboundNames(response.airlines),
          y \in ReturnNames(response.airlines) :
            x # y /\ BackQuote(y) < BackQuote(x) /\ OutQuote(x) < OutQuote(y)

\* The cheapest quote of a leg, as a float (hundredths).
MinPrice(leg) ==
    Float(CHOOSE m \in { QuoteOf(a, leg) : a \in Candidates } :
              \A b \in Candidates : m <= QuoteOf(b, leg))

\* C3: the 'price' of the lowest-cost answer equals
\* (minimum outbound quote + minimum return quote) x 1.08.
C3_PriceMarkedUp ==
    Answered("/api/data/lowestcost") =>
        response.price * Scale = (MinPrice("departure") + MinPrice("back")) * MarkupNum

\* What the handler returns instead: the plain sum of the two minima.
C3_PlainSum ==
    Answered("/api/data/lowestcost") =>
        response.price = MinPrice("departure") + MinPrice("back")

\* Airline a holds rank k on a leg: fewer than k candidates quote strictly less
\* than a, and at least k quote no more than a (a tie shares its ranks).
IsRank(a, leg, k) ==
    /\ Cardinality({ b \in Candidates : QuoteOf(b, leg) < QuoteOf(a, leg) }) < k
    /\ Cardinality({ b \in Candidates : QuoteOf(b, leg) <= QuoteOf(a, leg) }) >= k

\* C4: the all-combinations answer has exactly one entry per candidate airline
\* (so never the cross product), and its entry of rank k pairs an airline whose
\* outbound quote is the k-th cheapest with one whose return quote is the k-th
\* cheapest.
C4_RankPaired ==
    Answered("/api/data") =>
        /\ Len(response.prices) = Len(airlines)
        /\ \A k \in 1..Len(response.prices) :
              LET s == response.prices[k].airlines
              IN  /\ OutboundNames(s) # {} /\ ReturnNames(s) # {}
                  /\ \A x \in OutboundNames(s) : IsRank(x, "departure", k)
                  /\ \A y \in ReturnNames(s) : IsRank(y, "back", k)

\* An answer for the four candidates in which an entry of rank >= 2 pairs two
\* different airlines and the outbound quotes are not all equal.
C4_Witness ==
    /\ Answered("/api/data")
    /\ Len(airlines) = Len(Airlines)
    /\ \E a, b \in Candidates : OutQuote(a) < OutQuote(b)
    /\ \E k \in 2..Len(response.prices) :
          \E x \in OutboundNames(response.prices[k].airlines),
             y \in ReturnNames(response.prices[k].airlines) : x # y

\* C5: every entry of the all-combinations answer has price
\* (outbound quote of its outbound airline + return quote of its return
\* airline) x 1.08: one markup on the sum, the same factor in every entry.
C5_EntryPrice ==
    Answered("/api/data") =>
        \A k \in 1..Len(response.prices) :
            LET e == response.prices[k]
            IN  /\ OutboundNames(e.airlines) # {} /\ ReturnNames(e.airlines) # {}
                /\ \A x \in OutboundNames(e.airlines), y \in ReturnNames(e.airlines) :
                      e.price * Scale
                          = (Float(OutQuote(x)) + Float(BackQuote(y))) * MarkupNum

\* An answer with an entry both of whose quotes are non-zero, beside an entry
\* with another price.
C5_Witness ==
    /\ Answered("/api/data")
    /\ \E k, j \in 1..Len(response.prices) :
          /\ response.prices[k].price # response.prices[j].price
          /\ \E x \in OutboundNames(response.prices[k].airlines),
                y \in ReturnNames(response.prices[k].airlines) :
                  OutQuote(x) > 0 /\ BackQuote(y) > 0

\* C6: the 'prices' list of the all-combinations answer is in non-decreasing
\* order of combined price, and its first entry pairs a cheapest outbound
\* airline with a cheapest return airline.
C6_PricesAscending ==
    Answered("/api/data") =>
        /\ \A k \in 1..(Len(response.prices) - 1) :
              response.prices[k].price <= response.prices[k + 1].price
        /\ Len(response.prices) > 0 =>
              /\ \A x \in OutboundNames(response.prices[1].airlines) :
                    \A b \in Candidates : OutQuote(x) <= OutQuote(b)
              /\ \A y \in ReturnNames(response.prices[1].airlines) :
                    \A b \in Candidates : BackQuote(y) <= BackQuote(b)

\* An answer for the four candidates whose last entry is dearer than its first,
\* from quotes that were not in ascending order in the candidate list.
C6_Witness ==
    /\ Answered("/api/data")
    /\ Len(airlines) = Len(Airlines)
    /\ response.prices[1].price < response.prices[Len(response.prices)].price
    /\ OutQuote(airlines[1]) > OutQuote(airlines[2])
    /\ BackQuote(airlines[2]) > BackQuote(airlines[3])

\* The loop has issued all its calls and every one of them returned.
Completed == pc \in {"sort", "build"} \/ (pc = "done" /\ response.status = 200)

\* The calls issued so far for airline a on the given leg.
CallsFor(a, leg) ==
    { k \in 1..Len(calls) : calls[k].airline = a /\ calls[k].leg = leg }

\* C7: in both queries every outbound oracle call is made with (outbound date,
\* origin, destination) and every return call with (return date, destination,
\* origin) of the request, and a completed query has made both calls for every
\* candidate airline.
C7_ReturnLegSwapped ==
    LET dep == Str(ArgsGet(args, "dep"))
        dest == Str(ArgsGet(args, "dest"))
        depdate == Str(ArgsGet(args, "depdate"))
        backdate == Str(ArgsGet(args, "backdate"))
    IN  /\ \A k \in 1..Len(calls) :
              /\ calls[k].leg = "departure" =>
                    /\ calls[k].date = depdate
                    /\ calls[k].source = dep
                    /\ calls[k].destination = dest
              /\ calls[k].leg = "back" =>
                    /\ calls[k].date = backdate
                    /\ calls[k].source = dest
                    /\ calls[k].destination = dep
        /\ Completed =>
              \A a \in Candidates :
                  CallsFor(a, "departure") # {} /\ CallsFor(a, "back") # {}

\* A completed query for the four candidates between two different cities on
\* two different dates.
C7_Witness ==
    /\ pc = "done" /\ response.status = 200
    /\ Len(airlines) = Len(Airlines)
    /\ args # <<>>
    /\ args["dep"] # args["dest"]
    /\ args["depdate"] # args["backdate"]
    /\ \E k \in 1..Len(calls) : calls[k].leg = "back"

\* Handler steps left before the response is ready.
Remaining ==
    CASE pc = "call_departure" -> 4 * (Len(airlines) - i) + 6
      [] pc = "wait_departure" -> 4 * (Len(airlines) - i) + 5
      [] pc = "call_back" -> 4 * (Len(airlines) - i) + 4
      [] pc = "wait_back" -> 4 * (Len(airlines) - i) + 3
      [] pc = "sort" -> 2
      [] pc = "build" -> 1
      [] OTHER -> 0

\* The handler is at a position from which its next step can be taken: a call
\* or a pending call for a candidate of the list, the sort, or the build of a
\* known route.
CanStep ==
    \/ /\ pc \in {"call_departure", "wait_departure", "call_back", "wait_back"}
       /\ i \in 1..Len(airlines)
       /\ Quotes # {}
    \/ pc = "sort"
    \/ pc = "build" /\ endpoint \in Endpoints

\* C8: at most one oracle call of the request is in flight at any time; a query
\* all of whose calls returned has made exactly 2 x |candidates| calls, exactly
\* one per (airline, direction); a request in progress is never stuck,
\* every step brings it closer to its response, and a finished request has one.
C8_SequentialCalls ==
    /\ [](/\ Cardinality(in_flight) <= 1
          /\ response.status # 500 => Len(returns) + Cardinality(in_flight) = Len(calls)
          /\ Completed =>
                /\ Len(calls) = 2 * Len(airlines)
                /\ in_flight = {}
                /\ \A a \in Candidates :
                      /\ Cardinality(CallsFor(a, "departure")) = 1
                      /\ Cardinality(CallsFor(a, "back")) = 1
          /\ pc \notin {"idle", "done"} => CanStep
          /\ pc = "done" => response # NoResponse)
    /\ [][pc \notin {"idle", "done"} => Remaining' < Remaining /\ Remaining' >= 0]_vars

\* A query for the four candidates has answered after its eight calls.
C8_Witness ==
    /\ pc = "done" /\ response.status = 200
    /\ Len(airlines) = Len(Airlines)
    /\ Len(calls) = 2 * Len(Airlines)

\* The first candidate, in candidate order, whose quote on the leg is minimal.
FirstCheapest(leg) ==
    airlines[CHOOSE j \in 1..Len(airlines) :
        /\ \A b \in Candidates : QuoteOf(airlines[j], leg) <= QuoteOf(b, leg)
        /\ \A h \in 1..(j - 1) : QuoteOf(airlines[h], leg) > QuoteOf(airlines[j], leg)]

\* Airlines with equal quotes stand in list s in candidate order.
TiesInCandidateOrder(s, leg) ==
    \A p, q \in 1..Len(s) :
        (p < q /\ QuoteOf(s[p], leg) = QuoteOf(s[q], leg)) => PosOf(s[p]) < PosOf(s[q])

\* C9: in each sorted collection airlines with the identical price keep the
\* order they have in the candidate list, and the lowest-cost answer names, on
\* each leg, the first-listed candidate among those with the minimum quote.
C9_StableTies ==
    /\ (pc = "build" \/ (pc = "done" /\ response.status = 200)) =>
          /\ TiesInCandidateOrder(dest_airlines, "departure")
          /\ TiesInCandidateOrder(back_airlines, "back")
    /\ Answered("/api/data/lowestcost") =>
          /\ OutboundNames(response.airlines) = {FirstCheapest("departure")}
          /\ ReturnNames(response.airlines) = {FirstCheapest("back")}

\* A lowest-cost answer in which the second and third candidates tie for the
\* cheapest outbound quote and the first candidate is dearer.
C9_Witness ==
    /\ Answered("/api/data/lowestcost")
    /\ Len(airlines) >= 3
    /\ OutQuote(airlines[2]) = OutQuote(airlines[3])
    /\ OutQuote(airlines[1]) > OutQuote(airlines[2])
    /\ \A b \in Candidates : OutQuote(airlines[2]) <= OutQuote(b)

CallFailed == Len(returns) + Cardinality(in_flight) < Len(calls)

\* C11: when an oracle call of a query fails the query is over with a failure
\* response, not with a result built from the quotes obtained so far; the
\* failed call is the last call of the query (no retry, no further call).
C11_FailureSurfaced ==
    /\ [](CallFailed =>
            /\ pc = "done"
            /\ response = Failure("OracleError")
            /\ in_flight = {}
            /\ Len(calls) = Len(returns) + 1)
    /\ [][CallFailed => (calls' = calls \/ calls' = <<>>)]_vars

\* A query has failed at a call made after some quotes had been obtained.
C11_Witness ==
    /\ CallFailed
    /\ Len(returns) >= 3
    /\ pc = "done"

\* The quotes behind the airlines named in an 'airlines' string are valid.
NamedQuotesValid(s) ==
    /\ \A x \in OutboundNames(s) : OutQuote(x) >= 0
    /\ \A y \in ReturnNames(s) : BackQuote(y) >= 0

\* C12: a quote that is not a non-negative number never enters an answer: it
\* is neither the quote of the cheapest airline of a leg nor part of a returned
\* combined price.
C12_InvalidQuoteExcluded ==
    /\ Answered("/api/data/lowestcost") =>
          NamedQuotesValid(response.airlines) /\ response.price >= 0
    /\ Answered("/api/data") =>
          \A k \in 1..Len(response.prices) :
              NamedQuotesValid(response.prices[k].airlines)

\* C13: a request that lacks one of dep, dest, depdate, backdate causes no oracle
\* call and gets no price result.
C13_MissingParamRejected ==
    (pc # "idle" /\ \E p \in Params : p \notin DOMAIN args) =>
        /\ calls = <<>>
        /\ response.status # 200

\* C15: the answer of either query is determined by its inputs (route,
\* parameters, candidate list) and the quotes of the oracle alone, whatever
\* requests were served before: two calls with identical inputs and quotes
\* give the identical answer.
C15_Idempotent ==
    (pc = "done" /\ response.status = 200) =>
        response = ResponseOf(endpoint, airlines, args,
                              [a \in Candidates |-> OutQuote(a)],
                              [a \in Candidates |-> BackQuote(a)])

\* An all-combinations answer for the four candidates in which the order of
\* the entries rests on ties and on quotes that were not in candidate order.
C15_Witness ==
    /\ Answered("/api/data")
    /\ Len(airlines) = Len(Airlines)
    /\ OutQuote(airlines[1]) > OutQuote(airlines[3])
    /\ OutQuote(airlines[3]) = OutQuote(airlines[4])
    /\ BackQuote(airlines[1]) = BackQuote(airlines[2])
    /\ BackQuote(airlines[3]) < BackQuote(airlines[4])

\* String s is the comma-joined pair <<x, y>> and of no other pair of candidates.
IsPairOf(s, x, y) ==
    { p \in Candidates \X Candidates : s = p[1] \o "," \o p[2] } = { <<x, y>> }

\* C17: the 'airlines' field of every returned combination is the comma-joined
\* string of exactly two identifiers, the outbound airline first and the
\* return airline second; the lowest-cost answer has exactly the fields
\* 'airlines' and 'price' (beside the HTTP status of the model).
C17_AirlinesField ==
    /\ Answered("/api/data/lowestcost") =>
          /\ DOMAIN response = {"status", "airlines", "price"}
          /\ IsPairOf(response.airlines, dest_airlines[1], back_airlines[1])
    /\ Answered("/api/data") =>
          \A k \in 1..Len(response.prices) :
              /\ DOMAIN response.prices[k] = {"airlines", "price"}
              /\ IsPairOf(response.prices[k].airlines,
                          dest_airlines[k], back_airlines[k])

\* A lowest-cost answer that names Air India for the outbound leg and another
\* airline for the return leg.
C17_Witness ==
    /\ Answered("/api/data/lowestcost")
    /\ dest_airlines[1] = "Air India"
    /\ back_airlines[1] # "Air India"
    /\ OutQuote("Air India") < OutQuote(back_airlines[1])

\* C19: the combination of the lowest-cost answer is the minimum over the full
\* outbound x return cross product: the quotes of its two airlines, and its
\* price, sum to no more than the quotes of any pair of candidates.
C19_CrossProductMinimum ==
    Answered("/api/data/lowestcost") =>
        \A x \in Candidates, y \in Candidates :
            /\ response.price <= Float(OutQuote(x)) + Float(BackQuote(y))
            /\ \A cx \in OutboundNames(response.airlines),
                  cy \in ReturnNames(response.airlines) :
                    OutQuote(cx) + BackQuote(cy) <= OutQuote(x) + BackQuote(y)

\* A lowest-cost answer that is strictly cheaper than every round trip flown
\* with one airline.
C19_Witness ==
    /\ Answered("/api/data/lowestcost")
    /\ OutboundNames(response.airlines) # {}
    /\ \A a \in Candidates :
          response.price < Float(OutQuote(a)) + Float(BackQuote(a))

\* C20: whenever the airline of outbound rank k >= 2 quotes strictly more than
\* the cheapest outbound airline, the cross pair (cheapest outbound airline,
\* return airline of rank k) is strictly cheaper than the entry of rank k and
\* is no entry of the all-combinations answer: rank pairing does not enumerate
\* the cross product cheapest first.
C20_CrossPairMissed ==
    Answered("/api/data") =>
        \A k \in 2..Len(response.prices) :
            OutQuote(dest_airlines[1]) < OutQuote(dest_airlines[k]) =>
                /\ (Float(OutQuote(dest_airlines[1]))
                       + Float(BackQuote(back_airlines[k]))) * MarkupNum
                      < response.prices[k].price * Scale
                /\ \A j \in 1..Len(response.prices) :
                      response.prices[j].airlines
                          # dest_airlines[1] \o "," \o back_airlines[k]

\* An all-combinations answer whose two rankings diverge: the entry of some
\* rank >= 2 is dearer than the cross pair of the cheapest outbound airline
\* with that entry's return airline.
C20_Witness ==
    /\ Answered("/api/data")
    /\ \E k \in 2..Len(response.prices) :
          /\ OutQuote(dest_airlines[1]) < OutQuote(dest_airlines[k])
          /\ dest_airlines[k] # back_airlines[k]
          /\ dest_airlines[1] # back_airlines[1]

\* C16: requests share no mutable state. Under every interleaving of the steps
\* of two concurrent requests the answer of a request is the answer it gives
\* when run alone (the function of its own inputs and quotes); no step changes
\* the candidate list or the names the oracle module binds; and a step of the
\* running request leaves the locals of the other request as they are.
C16_NoSharedState ==
    /\ []((pc = "done" /\ response.status = 200) =>
            response = ResponseOf(endpoint, airlines, args,
                                  [a \in Candidates |-> OutQuote(a)],
                                  [a \in Candidates |-> BackQuote(a)]))
    /\ []((pc = "done" /\ response.status # 200) =>
            response.exc = IF OracleName \notin analysis_attrs
                           THEN "AttributeError" ELSE "OracleError")
    /\ [][/\ airlines' = airlines
          /\ analysis_attrs' = analysis_attrs
          /\ (suspended' # suspended => (suspended' = Frame /\ Frame' = suspended))
         ]_vars

\* One request has its answer while the other one, for another route and
\* other parameters, is between its two oracle calls with quotes that differ.
C16_Witness ==
    /\ pc = "done" /\ response.status = 200
    /\ suspended.pc = "call_back"
    /\ suspended.endpoint # endpoint
    /\ suspended.args # args
    /\ suspended.departure_price # sorted_prices_departure[1][2]

\* C14: for each row of the bulk input, the lowest-cost request sent to the
\* backend carries that row's origin as 'dep', that row's destination as
\* 'dest', and that row's outbound and return dates.
C14_RowQuery ==
    bulk_pc = "wait" =>
        /\ bulk_url.path = "/api/data/lowestcost"
        /\ bulk_url.query["dep"] = data[index].departure_city
        /\ bulk_url.query["dest"] = data[index].destination_city
        /\ bulk_url.query["depdate"] = data[index].departure_date
        /\ bulk_url.query["backdate"] = data[index].back_date

\* The date a query parameter spells.
DateOf(str) == CHOOSE d \in Dates : IsoFormat(d) = str

\* Date a is earlier than date b.
Earlier(a, b) ==
    \/ a[1] < b[1]
    \/ a[1] = b[1] /\ a[2] < b[2]
    \/ a[1] = b[1] /\ a[2] = b[2] /\ a[3] < b[3]

\* C18: the main page never sends a query whose return date is earlier than
\* its outbound date, or one of whose dates is unset.
C18_DatesSane ==
    main_pc = "wait" =>
        /\ main_url.query["depdate"] # "None"
        /\ main_url.query["backdate"] # "None"
        /\ ~Earlier(DateOf(main_url.query["backdate"]),
                    DateOf(main_url.query["depdate"]))

\* The request carries all four parameters and has a candidate to price.
WellFormed == DOMAIN args = Params /\ Len(airlines) > 0

\* C22: a well-formed request to either route, with an oracle that answers
\* every call, completes with a price response and not with an error: the
\* name the handlers look up in module analysis is one the module defines.
C22_OracleResolves ==
    /\ (pc = "done" /\ WellFormed /\ ~CallFailed) => response.status = 200
    /\ (pc \in {"call_departure", "call_back"}) => OracleName \in analysis_attrs

\* The quotes of the request as functions of the candidates.
OutQuotes == [a \in Candidates |-> OutQuote(a)]
BackQuotes == [a \in Candidates |-> BackQuote(a)]

\* C23: for identical inputs and quotes the 'airlines' string of the first
\* entry of the all-combinations answer is the 'airlines' string of the
\* lowest-cost answer, ties included.
C23_FirstEntryIsLowest ==
    /\ (Answered("/api/data") /\ Len(response.prices) > 0) =>
          response.prices[1].airlines
              = LowestOf(airlines, OutQuotes, BackQuotes).airlines
    /\ Answered("/api/data/lowestcost") =>
          response.airlines
              = PredictOf(airlines, args, OutQuotes, BackQuotes).prices[1].airlines

\* An all-combinations answer for the four candidates whose cheapest outbound
\* quote and cheapest return quote are both tied, between different airlines.
C23_Witness ==
    /\ Answered("/api/data")
    /\ Len(airlines) = Len(Airlines)
    /\ OutQuote(airlines[1]) > OutQuote(airlines[2])
    /\ OutQuote(airlines[2]) = OutQuote(airlines[3])
    /\ BackQuote(airlines[3]) = BackQuote(airlines[4])
    /\ BackQuote(airlines[1]) > BackQuote(airlines[3])
    /\ BackQuote(airlines[2]) > BackQuote(airlines[3])
    /\ response.prices[1].airlines = airlines[2] \o "," \o airlines[3]

\* The ranks at which candidate a stands first / second in the 'airlines' string.
OutboundRanks(a) ==
    { k \in 1..Len(response.prices) :
        \E y \in Candidates : response.prices[k].airlines = a \o "," \o y }
ReturnRanks(a) ==
    { k \in 1..Len(response.prices) :
        \E x \in Candidates : response.prices[k].airlines = x \o "," \o a }

\* C24: in the all-combinations answer every candidate stands exactly once in
\* the outbound position and exactly once in the return position: both
\* position sequences are permutations of the candidate list, ties included.
C24_Permutations ==
    Answered("/api/data") =>
        /\ Len(response.prices) = Len(airlines)
        /\ \A a \in Candidates :
              /\ Cardinality(OutboundRanks(a)) = 1
              /\ Cardinality(ReturnRanks(a)) = 1

\* An all-combinations answer for the four candidates in which all outbound
\* quotes tie and the return quotes do not, so the two orders differ.
C24_Witness ==
    /\ Answered("/api/data")
    /\ Len(airlines) = Len(Airlines)
    /\ \A a \in Candidates : OutQuote(a) = OutQuote(airlines[1])
    /\ BackQuote(airlines[1]) > BackQuote(airlines[4])
    /\ OutboundRanks(airlines[1]) # ReturnRanks(airlines[1])

\* C25: on_click_btn issues exactly one lowest-cost request per parsed trip,
\* in the order of the rows, and draws trip k with index k only after its own
\* reply has arrived; if the request of trip k fails, trips 1..k-1 have been
\* drawn and no request is issued for trips k+1..n.
C25_OneRequestPerTrip ==
    /\ [](/\ \A k \in 1..Len(sent) :
               /\ k <= Len(data)
               /\ sent[k].path = "/api/data/lowestcost"
               /\ sent[k].query["dep"] = data[k].departure_city
               /\ sent[k].query["depdate"] = data[k].departure_date
               /\ sent[k].query["backdate"] = data[k].back_date
          /\ \A k \in 1..Len(forms) :
               /\ forms[k].index = k
               /\ forms[k].name = data[k].name
               /\ k <= Len(sent)
          /\ bulk_pc = "wait" => (Len(sent) = index /\ Len(forms) = index - 1)
          /\ bulk_pc = "done" => (Len(sent) = Len(data) /\ Len(forms) = Len(data))
          /\ bulk_pc = "error" =>
                (Len(sent) = index /\ Len(forms) = index - 1 /\ bulk_url = NoUrl))
    /\ [][/\ Len(forms') > Len(forms) =>
               (bulk_pc = "wait" /\ forms' = Append(forms, forms'[Len(forms')]))
          /\ bulk_pc = "error" => (sent' = sent \/ Len(sent') <= 1)
         ]_vars

\* The request of the second of two different trips has failed: the first
\* trip is drawn, the second is not.
C25_Witness ==
    /\ bulk_pc = "error"
    /\ Len(data) = 2 /\ index = 2
    /\ data[1].name # data[2].name
    /\ Len(forms) = 1 /\ Len(sent) = 2

\* The fields excel_parser.parse gives a trip.
ParsedFields == {"name", "departure_city", "destination_city",
                 "departure_date", "back_date"}

\* C28: processing a trip only adds the fields 'airlines' and 'price' to that
\* trip's record: its name, cities and dates stay as parsed, and the records
\* of the other trips are not touched.
C28_OnlyAddsCost ==
    /\ [](uploaded_file.some =>
            /\ Len(data) = Len(parse(uploaded_file.val))
            /\ \A k \in 1..Len(data) :
                 /\ \A f \in ParsedFields :
                       data[k][f] = parse(uploaded_file.val)[k][f]
                 /\ DOMAIN data[k] = IF k <= Len(forms)
                                     THEN ParsedFields \cup {"airlines", "price"}
                                     ELSE ParsedFields)
    /\ [][bulk_pc = "wait" =>
            \A k \in 1..Len(data) :
                /\ k # index => data'[k] = data[k]
                /\ \A f \in ParsedFields : data'[k][f] = data[k][f]
         ]_vars

\* Both of two different trips have been processed.
C28_Witness ==
    /\ bulk_pc = "done"
    /\ Len(data) = 2
    /\ data[1].departure_city # data[2].departure_city
    /\ data[1].airlines # data[2].airlines

\* C26: excel_parser.parse returns exactly one record per worksheet row from
\* row 2 to the last row, in row order (the header row is never returned, no
\* row is dropped or duplicated), with origin, destination, outbound date and
\* return date taken from columns 4, 5, 6 and 7 of that row and each date cut
\* at its first space.
C26_ParseRows ==
    uploaded_file.some =>
        LET ws == uploaded_file.val
        IN  /\ Len(data) = max_row(ws) - 1
            /\ \A k \in 1..Len(data) :
                  /\ data[k].departure_city = Row(ws, k + 1)[4]
                  /\ data[k].destination_city = Row(ws, k + 1)[5]
                  /\ data[k].departure_date = IsoFormat(Row(ws, k + 1)[6])
                  /\ data[k].back_date = IsoFormat(Row(ws, k + 1)[7])
                  /\ data[k].departure_city # ws.header[4]
                  /\ data[k].departure_date # ws.header[6]

\* A worksheet of a header and two different rows has been parsed.
C26_Witness ==
    /\ uploaded_file.some
    /\ bulk_pc = "idle"
    /\ max_row(uploaded_file.val) = 3
    /\ Row(uploaded_file.val, 2) # Row(uploaded_file.val, 3)
    /\ Len(data) = 2
    /\ data[1].departure_date = "2019-03-01"
    /\ data[2].back_date = "2019-04-02"

\* The prediction behind the quote of airline a on the given leg.
PredictionOf(a, leg) ==
    predictions[CHOOSE k \in 1..Len(predictions) :
                    calls[k].airline = a /\ calls[k].leg = leg]

\* Position of airline a in the list l of airlines.
RankIn(l, a) == CHOOSE k \in 1..Len(l) : l[k] = a

\* Lists l ranks airlines a and b as a tie: in the order of the candidate list.
RankedAsTie(l, a, b) == (RankIn(l, a) < RankIn(l, b)) <=> (PosOf(a) < PosOf(b))

====
